---- MODULE Spec2Model ----
(***************************************************************************)
(* Model of the document dispatcher transformAll of                        *)
(* src/src/transform/index.ts.  One call of transformAll is a run through  *)
(* the program positions raw -> paths -> version -> operations -> express  *)
(* -> handlers -> cleanup -> done; the caller may call again afterwards.   *)
(*                                                                         *)
(* A text fragment is a sequence of tokens.  A token is a record with a    *)
(* field tok; [tok |-> "ws"] is a run of whitespace, every other token is  *)
(* non-blank text.  String.prototype.trim is modelled on that sequence.    *)
(* A JavaScript object is a function from its keys; the key order of the   *)
(* objects whose order the code observes (paths, a Path Item, the          *)
(* operation registry) is kept by modelling them as sequences of entries.  *)
(***************************************************************************)
EXTENDS Integers, Sequences, FiniteSets, TLC

VARIABLES
    schema,      \* the Document handed to the running call
    ctx,         \* the GlobalContext handed to the running call
    pc,          \* position of the running call inside transformAll
    output,      \* const output: Record<string, string>
    operations,  \* const operations: the operation registry of the call
    log,         \* registry accesses and emitter invocations of the call
    first,       \* input and Output of the first completed call, and whether a
                 \* later call has started
    requests     \* the inputs the caller may submit

vars == <<schema, ctx, pc, output, operations, log, first, requests>>

-----------------------------------------------------------------------------
(* Bounds of the model *)

\* nodes of a Document: the paths key, each path, each Path Item key, each
\* root collection, the components key and each of its sub-collections
MaxNodes == 5
\* nodes of a Document in the specification of successive calls
MaxSeqNodes == 3
\* whitespace tokens a leaf emitter puts before and after its fragment
EmitterPad == 1

-----------------------------------------------------------------------------
(* Values *)

Undefined == << >>

Has(obj, k) == k \in DOMAIN obj

Get(obj, k) == IF Has(obj, k) THEN obj[k] ELSE Undefined

Range(s) == {s[i] : i \in DOMAIN s}

httpMethods == <<"get", "put", "post", "delete", "options", "head", "patch", "trace">>

Ws == [tok |-> "ws"]

Padding == [i \in 1..EmitterPad |-> Ws]

RECURSIVE TrimStart(_)
TrimStart(text) ==
    IF text = << >> \/ Head(text).tok # "ws" THEN text ELSE TrimStart(Tail(text))

RECURSIVE TrimEnd(_)
TrimEnd(text) ==
    IF text = << >> \/ text[Len(text)].tok # "ws"
    THEN text
    ELSE TrimEnd(SubSeq(text, 1, Len(text) - 1))

trim(text) == TrimEnd(TrimStart(text))

tsReadonly(immutableTypes) == IF immutableTypes THEN "readonly " ELSE ""

\* `  ${readonly}name: {\n    ${body}\n  }\n`
Block(readonly, name, body) ==
    <<Ws, [tok |-> "open", readonly |-> readonly, name |-> name], Ws>>
        \o body \o <<Ws, [tok |-> "close"], Ws>>

Put(out, k, text) ==
    [j \in DOMAIN out \cup {k} |-> IF j = k THEN text ELSE out[j]]

-----------------------------------------------------------------------------
(* The inputs: Documents and Contexts *)

PathNames == {"/a", "/b"}

\* an Operation: "" stands for a property the Operation does not have
OperationObjects ==
    { [operationId |-> "getPet", description |-> "Returns a pet", responses |-> "200"],
      [operationId |-> "", description |-> "", responses |-> ""] }

\* the value of a Path Item's parameters key is an array: none of the
\* Operation properties is defined on it
SharedParameters == [operationId |-> "", description |-> "", responses |-> ""]

PathItemKeys == {"get", "post", "parameters"}

PathItemEntries ==
    {[key |-> k, value |-> op] : k \in PathItemKeys \ {"parameters"}, op \in OperationObjects}
        \cup {[key |-> "parameters", value |-> SharedParameters]}

\* a Path Item: its entries in the key order of the object
PathItemObjects ==
    {item \in UNION {[1..n -> PathItemEntries] : n \in 0..Cardinality(PathItemKeys)} :
        \A i, j \in DOMAIN item : i # j => item[i].key # item[j].key}

RECURSIVE PathsNodes(_)
PathsNodes(paths) ==
    IF paths = << >> THEN 0 ELSE 1 + Len(Head(paths).item) + PathsNodes(Tail(paths))

\* the paths node: its entries in the order of the source document
PathsObjects ==
    {paths \in UNION {[1..n -> [path : PathNames, item : PathItemObjects]] :
                        n \in 0..Cardinality(PathNames)} :
        /\ \A i, j \in DOMAIN paths : i # j => paths[i].path # paths[j].path
        /\ 1 + PathsNodes(paths) <= MaxNodes}

RootKeys == {"definitions", "parameters", "responses"}

ComponentKeys == {"schemas", "responses", "parameters", "requestBodies", "headers"}

RootCollection(k) ==
    CASE k = "definitions" -> [n \in {"Pet"} |-> "object"]
      [] k = "parameters" -> [n \in {"limit"} |-> "integer"]
      [] k = "responses" -> [n \in {"NotFound"} |-> "response"]

ComponentCollection(k) ==
    CASE k = "schemas" -> [n \in {"Pet", "Error"} |-> "object"]
      [] k = "responses" -> [n \in {"Gone"} |-> "response"]
      [] k = "parameters" -> [n \in {"offset"} |-> "integer"]
      [] k = "requestBodies" -> [n \in {"NewPet"} |-> "body"]
      [] k = "headers" -> [n \in {"X-Rate"} |-> "header"]

\* paths and components are << >> (absent) or a one-element sequence
Document(paths, root, components) ==
    [k \in (IF paths = << >> THEN {} ELSE {"paths"}) \cup root
            \cup (IF components = << >> THEN {} ELSE {"components"}) |->
        CASE k = "paths" -> paths[1]
          [] k = "components" -> [c \in components[1] |-> ComponentCollection(c)]
          [] OTHER -> RootCollection(k)]

DocumentNodes(paths, root, components) ==
    (IF paths = << >> THEN 0 ELSE 1 + PathsNodes(paths[1]))
        + Cardinality(root)
        + (IF components = << >> THEN 0 ELSE 1 + Cardinality(components[1]))

DocumentsOfSize(n) ==
    {Document(p, r, c) :
        <<p, r, c>> \in
            {t \in ({<< >>} \cup {<<x>> : x \in PathsObjects})
                    \X (SUBSET RootKeys)
                    \X ({<< >>} \cup {<<x>> : x \in SUBSET ComponentKeys}) :
                DocumentNodes(t[1], t[2], t[3]) <= n}}

Documents == DocumentsOfSize(MaxNodes)

Versions == {2, 3, 4}

Contexts == [version : Versions, rawSchema : BOOLEAN, immutableTypes : BOOLEAN]

Inputs == [schema : Documents, ctx : Contexts]

\* {...ctx, k: v}
Extend(c, k, v) == [j \in DOMAIN c \cup {k} |-> IF j = k THEN v ELSE c[j]]

-----------------------------------------------------------------------------
(* The collaborators of transformAll, at their boundary *)

transformSchemaObjMap(obj, c) ==
    Padding \o <<[tok |-> "schemaObjMap", keys |-> DOMAIN obj, required |-> c.required]>>
        \o Padding

transformResponsesObj(obj, c) ==
    Padding \o <<[tok |-> "responsesObj", keys |-> DOMAIN obj]>> \o Padding

transformRequestBodies(obj, c) ==
    Padding \o <<[tok |-> "requestBodies", keys |-> DOMAIN obj]>> \o Padding

transformHeaderObjMap(obj, c) ==
    Padding \o <<[tok |-> "headerObjMap", keys |-> DOMAIN obj, required |-> c.required]>>
        \o Padding

comment(description) == <<[tok |-> "comment", text |-> description], Ws>>

transformOperationObj(operation, c) ==
    <<[tok |-> "operationObj", operation |-> operation, pathItem |-> c.pathItem,
       globalParameters |-> c.globalParameters]>>

getResponseTypes(id, responses) == [fn |-> "getResponseTypes", id |-> id]

operationRequestType(id, operation, c) ==
    [fn |-> "operationRequestType", id |-> id, globalParameters |-> c.globalParameters]

queryStringType(id, operation, c) ==
    [fn |-> "queryStringType", id |-> id, globalParameters |-> c.globalParameters]

getOperationIdFromPath(path) == [fromPath |-> path]

\* the explicit operationId, or an identifier synthesized from method + path
getOperationId(op, method, path) ==
    IF op.operationId # ""
    THEN [operationId |-> op.operationId, method |-> "", path |-> ""]
    ELSE [operationId |-> "", method |-> method, path |-> path]

HasKey(item, k) == \E i \in DOMAIN item : item[i].key = k

ValueOf(item, k) == item[CHOOSE i \in DOMAIN item : item[i].key = k].value

\* the operations of one Path Item, as the paths emitter meets them
RECURSIVE DiscoveredInItem(_, _, _)
DiscoveredInItem(path, item, i) ==
    IF i > Len(httpMethods) THEN << >>
    ELSE (IF HasKey(item, httpMethods[i])
          THEN <<[id |-> getOperationId(ValueOf(item, httpMethods[i]), httpMethods[i], path),
                  operation |-> ValueOf(item, httpMethods[i]),
                  pathItem |-> item]>>
          ELSE << >>)
         \o DiscoveredInItem(path, item, i + 1)

\* every operation the paths emitter discovers while walking paths, in order
RECURSIVE Discovered(_)
Discovered(paths) ==
    IF paths = << >> THEN << >>
    ELSE DiscoveredInItem(Head(paths).path, Head(paths).item, 1) \o Discovered(Tail(paths))

\* operations[id] = { operation, pathItem }: a new key goes last, an existing
\* key keeps its place and takes the new value
Register(reg, entry) ==
    IF \E i \in DOMAIN reg : reg[i].id = entry.id
    THEN [i \in DOMAIN reg |-> IF reg[i].id = entry.id THEN entry ELSE reg[i]]
    ELSE Append(reg, entry)

RECURSIVE RegisterAll(_, _)
RegisterAll(reg, entries) ==
    IF entries = << >> THEN reg
    ELSE RegisterAll(Register(reg, Head(entries)), Tail(entries))

\* the fragment transformPathsObj returns
transformPathsObj(paths, c) ==
    Padding
        \o <<[tok |-> "pathsObj", paths |-> [i \in DOMAIN paths |-> paths[i].path],
              globalParameters |-> c.globalParameters]>>
        \o Padding

\* Object.keys(operations)
Keys(reg) == [i \in DOMAIN reg |-> reg[i].id]

-----------------------------------------------------------------------------
(* The sections transformAll builds *)

\* the switch has no case 2
rawSchemaReturnsOnly3(c) == c.rawSchema /\ c.version = 3

\* if (ctx.rawSchema) switch (ctx.version) { case 2: ... case 3: ... }
rawSchemaReturns(c) == c.rawSchema /\ c.version \in {2, 3}

rawSchemaOutput(s, c, out) ==
    Put(out, IF c.version = 2 THEN "definitions" ELSE "schemas",
        transformSchemaObjMap(s, Extend(c, "required", DOMAIN s)))

\* schema.parameters || (schema.components && schema.components.parameters)
globalParametersRootFirst(s) ==
    IF Has(s, "parameters")
    THEN s.parameters
    ELSE IF Has(s, "components") /\ Has(s.components, "parameters")
         THEN s.components.parameters
         ELSE Undefined

\* (schema.components && schema.components.parameters) || schema.parameters
globalParameters(s) ==
    IF Has(s, "components") /\ Has(s.components, "parameters")
    THEN s.components.parameters
    ELSE Get(s, "parameters")

\* output.paths is set only when the Document has paths
pathsSectionNoInit(s, c, out) ==
    IF Has(s, "paths")
    THEN Put(out, "paths",
             transformPathsObj(s.paths, Extend(c, "globalParameters", globalParameters(s))))
    ELSE out

pathsSection(s, c, out) ==
    Put(out, "paths",
        IF Has(s, "paths")
        THEN transformPathsObj(s.paths, Extend(c, "globalParameters", globalParameters(s)))
        ELSE << >>)

componentsSection(s, c) ==
    IF ~Has(s, "components") THEN << >>
    ELSE LET comps == s.components
             readonly == tsReadonly(c.immutableTypes)
             Own(k) == Extend(c, "required", DOMAIN comps[k])
         IN  (IF Has(comps, "schemas")
              THEN Block(readonly, "schemas", transformSchemaObjMap(comps.schemas, Own("schemas")))
              ELSE << >>)
             \o (IF Has(comps, "responses")
                 THEN Block(readonly, "responses", transformResponsesObj(comps.responses, c))
                 ELSE << >>)
             \o (IF Has(comps, "parameters")
                 THEN Block(readonly, "parameters",
                            transformSchemaObjMap(comps.parameters, Own("parameters")))
                 ELSE << >>)
             \o (IF Has(comps, "requestBodies")
                 THEN Block(readonly, "requestBodies",
                            transformRequestBodies(comps.requestBodies, c))
                 ELSE << >>)
             \o (IF Has(comps, "headers")
                 THEN Block(readonly, "headers",
                            transformHeaderObjMap(comps.headers, Extend(c, "required", {})))
                 ELSE << >>)

\* case 2 has no break and falls through to case 3
versionSectionsFallThrough(s, c, out) ==
    LET Own(k) == Extend(c, "required", DOMAIN s[k])
        o1 == IF Has(s, "definitions")
              THEN Put(out, "definitions", transformSchemaObjMap(s.definitions, Own("definitions")))
              ELSE out
        o2 == IF Has(s, "parameters")
              THEN Put(o1, "parameters", transformSchemaObjMap(s.parameters, Own("parameters")))
              ELSE o1
        o3 == IF Has(s, "responses")
              THEN Put(o2, "responses", transformResponsesObj(s.responses, c))
              ELSE o2
    IN  CASE c.version = 2 -> Put(o3, "components", componentsSection(s, c))
          [] c.version = 3 -> Put(out, "components", componentsSection(s, c))
          [] OTHER -> out

\* switch (ctx.version) { case 2: ... case 3: ... }
versionSections(s, c, out) ==
    CASE c.version = 2 ->
            LET Own(k) == Extend(c, "required", DOMAIN s[k])
                o1 == IF Has(s, "definitions")
                      THEN Put(out, "definitions", transformSchemaObjMap(s.definitions, Own("definitions")))
                      ELSE out
                o2 == IF Has(s, "parameters")
                      THEN Put(o1, "parameters", transformSchemaObjMap(s.parameters, Own("parameters")))
                      ELSE o1
            IN  IF Has(s, "responses")
                THEN Put(o2, "responses", transformResponsesObj(s.responses, c))
                ELSE o2
      [] c.version = 3 -> Put(out, "components", componentsSection(s, c))
      [] OTHER -> out

\* { ...ctx, pathItem, globalParameters }
typeArgs(s, c, entry) ==
    Extend(Extend(c, "pathItem", entry.pathItem), "globalParameters", globalParameters(s))

Close == [tok |-> "close"]

operationsEntry(s, c, entry) ==
    (IF entry.operation.description # "" THEN comment(entry.operation.description) ELSE << >>)
        \o <<Ws, [tok |-> "entry", readonly |-> tsReadonly(c.immutableTypes), id |-> entry.id], Ws>>
        \o transformOperationObj(entry.operation, typeArgs(s, c, entry))
        \o <<Ws, Close, Ws>>

RECURSIVE operationsSection(_, _, _)
operationsSection(s, c, reg) ==
    IF reg = << >> THEN << >>
    ELSE operationsEntry(s, c, Head(reg)) \o operationsSection(s, c, Tail(reg))

\* responses: getResponseTypes(id, operation.responses), without the test
expressEntryNoVoid(s, c, entry) ==
    LET id == entry.id
        operation == entry.operation
    IN  << Ws, [tok |-> "entry", readonly |-> "", id |-> id], Ws,
           [tok |-> "member", name |-> "responses",
            type |-> <<getResponseTypes(id, operation.responses)>>],
           Ws,
           [tok |-> "member", name |-> "request",
            type |-> <<operationRequestType(id, operation, typeArgs(s, c, entry)),
                       queryStringType(id, operation, typeArgs(s, c, entry))>>],
           Ws,
           [tok |-> "member", name |-> "response", type |-> <<[fn |-> "responsesOf", id |-> id]>>],
           Ws,
           [tok |-> "member", name |-> "handler",
            type |-> <<[fn |-> "requestOf", id |-> id], [fn |-> "responseOf", id |-> id]>>],
           Ws, Close, Ws >>

expressEntry(s, c, entry) ==
    LET id == entry.id
        operation == entry.operation
    IN  << Ws, [tok |-> "entry", readonly |-> "", id |-> id], Ws,
           [tok |-> "member", name |-> "responses",
            type |-> IF operation.responses # ""
                     THEN <<getResponseTypes(id, operation.responses)>>
                     ELSE <<[fn |-> "void"]>>],
           Ws,
           [tok |-> "member", name |-> "request",
            type |-> <<operationRequestType(id, operation, typeArgs(s, c, entry)),
                       queryStringType(id, operation, typeArgs(s, c, entry))>>],
           Ws,
           [tok |-> "member", name |-> "response", type |-> <<[fn |-> "responsesOf", id |-> id]>>],
           Ws,
           [tok |-> "member", name |-> "handler",
            type |-> <<[fn |-> "requestOf", id |-> id], [fn |-> "responseOf", id |-> id]>>],
           Ws, Close, Ws >>

RECURSIVE expressSection(_, _, _)
expressSection(s, c, reg) ==
    IF reg = << >> THEN << >>
    ELSE expressEntry(s, c, Head(reg)) \o expressSection(s, c, Tail(reg))

\* httpMethods.includes(method)
IsHttpMethod(method) == \E i \in DOMAIN httpMethods : httpMethods[i] = method

\* every key of the Path Item is rendered: no httpMethods.includes test
RECURSIVE handlerMembersUnfiltered(_, _)
handlerMembersUnfiltered(path, item) ==
    IF item = << >> THEN << >>
    ELSE <<Ws, [tok |-> "handler", method |-> Head(item).key,
                id |-> getOperationId(Head(item).value, Head(item).key, path)], Ws>>
         \o handlerMembersUnfiltered(path, Tail(item))

\* getOperationId(op, path, method): the arguments swapped
RECURSIVE handlerMembersSwapped(_, _)
handlerMembersSwapped(path, item) ==
    IF item = << >> THEN << >>
    ELSE (IF \E i \in DOMAIN httpMethods : httpMethods[i] = Head(item).key
          THEN <<Ws, [tok |-> "handler", method |-> Head(item).key,
                      id |-> getOperationId(Head(item).value, path, Head(item).key)], Ws>>
          ELSE << >>)
         \o handlerMembersSwapped(path, Tail(item))

\* for (const [method, op] of Object.entries(methods))
RECURSIVE handlerMembers(_, _)
handlerMembers(path, item) ==
    IF item = << >> THEN << >>
    ELSE (IF IsHttpMethod(Head(item).key)
          THEN <<Ws, [tok |-> "handler", method |-> Head(item).key,
                      id |-> getOperationId(Head(item).value, Head(item).key, path)], Ws>>
          ELSE << >>)
         \o handlerMembers(path, Tail(item))

\* for (const [path, methods] of Object.entries(schema.paths))
RECURSIVE handlersSection(_)
handlersSection(paths) ==
    IF paths = << >> THEN << >>
    ELSE <<Ws, [tok |-> "pathEntry", name |-> getOperationIdFromPath(Head(paths).path)], Ws>>
            \o handlerMembers(Head(paths).path, Head(paths).item)
            \o <<Ws, Close, Ws>>
            \o handlersSection(Tail(paths))

\* for (const k of Object.keys(output)) output[k] = output[k].trim()
cleanup(out) == [k \in DOMAIN out |-> trim(out[k])]

-----------------------------------------------------------------------------
(* transformAll, one action per stretch of the function *)

\* what the caller sees of a call that returned
Returned(out) ==
    IF first = << >>
    THEN <<[schema |-> schema, ctx |-> ctx, output |-> out, later |-> FALSE]>>
    ELSE first

\* the registry is a module-level object that is never emptied
CallSharedRegistry ==
    /\ pc \in {"idle", "done", "threw"}
    /\ \E r \in requests :
        /\ schema' = r.schema
        /\ ctx' = r.ctx
    /\ output' = << >>
    /\ log' = << >>
    /\ pc' = "raw"
    /\ first' = IF first = << >> THEN first ELSE <<[first[1] EXCEPT !.later = TRUE]>>
    /\ UNCHANGED <<operations, requests>>

\* lines 12-15: the call starts with an empty output and an empty registry
Call ==
    /\ pc \in {"idle", "done", "threw"}
    /\ \E r \in requests :
        /\ schema' = r.schema
        /\ ctx' = r.ctx
    /\ output' = << >>
    /\ operations' = << >>
    /\ log' = << >>
    /\ pc' = "raw"
    /\ first' = IF first = << >> THEN first ELSE <<[first[1] EXCEPT !.later = TRUE]>>
    /\ UNCHANGED requests

\* lines 17-30: --raw-schema mode
RawSchema ==
    /\ pc = "raw"
    /\ IF rawSchemaReturns(ctx)
       THEN /\ output' = rawSchemaOutput(schema, ctx, output)
            /\ log' = Append(log, [ev |-> "transformSchemaObjMap"])
            /\ first' = Returned(output')
            /\ pc' = "done"
       ELSE /\ pc' = "paths"
            /\ UNCHANGED <<output, log, first>>
    /\ UNCHANGED <<schema, ctx, operations, requests>>

\* lines 32-40: #/paths; the paths emitter fills the registry
TransformPaths ==
    /\ pc = "paths"
    /\ output' = pathsSection(schema, ctx, output)
    /\ IF Has(schema, "paths")
       THEN /\ operations' = RegisterAll(operations, Discovered(schema.paths))
            /\ log' = log \o <<[ev |-> "transformPathsObj"]>>
                          \o [i \in DOMAIN Discovered(schema.paths) |->
                                [ev |-> "write", id |-> Discovered(schema.paths)[i].id]]
       ELSE UNCHANGED <<operations, log>>
    /\ pc' = "version"
    /\ UNCHANGED <<schema, ctx, first, requests>>

\* lines 42-113: the sections of the document version
VersionBranch ==
    /\ pc = "version"
    /\ output' = versionSections(schema, ctx, output)
    /\ pc' = "operations"
    /\ UNCHANGED <<schema, ctx, operations, log, first, requests>>

\* #/operations is built before #/paths has been transformed
OperationsBeforePaths ==
    /\ pc \in {"paths", "operations"}
    /\ output' = Put(output, "operations", operationsSection(schema, ctx, operations))
    /\ log' = Append(log, [ev |-> "read"])
    /\ pc' = "express"
    /\ UNCHANGED <<schema, ctx, operations, first, requests>>

\* lines 115-127: #/operations
Operations ==
    /\ pc = "operations"
    /\ output' = Put(output, "operations", operationsSection(schema, ctx, operations))
    /\ log' = Append(log, [ev |-> "read"])
    /\ pc' = "express"
    /\ UNCHANGED <<schema, ctx, operations, first, requests>>

\* lines 129-149: Express type definitions
Express ==
    /\ pc = "express"
    /\ output' = Put(output, "express", expressSection(schema, ctx, operations))
    /\ log' = Append(log, [ev |-> "read"])
    /\ pc' = IF Len(operations) > 0 THEN "handlers" ELSE "cleanup"
    /\ UNCHANGED <<schema, ctx, operations, first, requests>>

\* lines 150-162: the path based handlers; Object.entries(undefined) throws
Handlers ==
    /\ pc = "handlers"
    /\ IF Has(schema, "paths")
       THEN /\ output' = Put(output, "handlers", handlersSection(schema.paths))
            /\ pc' = "cleanup"
       ELSE /\ output' = Put(output, "handlers", << >>)
            /\ pc' = "threw"
    /\ UNCHANGED <<schema, ctx, operations, log, first, requests>>

\* lines 165-172: trim every section and return
Cleanup ==
    /\ pc = "cleanup"
    /\ output' = cleanup(output)
    /\ first' = Returned(output')
    /\ pc' = "done"
    /\ UNCHANGED <<schema, ctx, operations, log, requests>>

Next ==
    \/ Call
    \/ RawSchema
    \/ TransformPaths
    \/ VersionBranch
    \/ Operations
    \/ Express
    \/ Handlers
    \/ Cleanup

Idle ==
    /\ schema = << >>
    /\ ctx = << >>
    /\ pc = "idle"
    /\ output = << >>
    /\ operations = << >>
    /\ log = << >>
    /\ first = << >>

\* one caller, one input, called any number of times
Init ==
    /\ Idle
    /\ \E r \in Inputs : requests = {r}

Spec == Init /\ [][Next]_vars

\* documents that consist of a paths node at most
SeqInputs ==
    {r \in [schema : DocumentsOfSize(MaxSeqNodes), ctx : Contexts] :
        /\ DOMAIN r.schema \subseteq {"paths"}
        /\ ~r.ctx.immutableTypes
        /\ r.ctx.version \in {2, 3}}

\* one caller that calls with one or the other of two inputs, again and again
InitSeq ==
    /\ Idle
    /\ \E r1, r2 \in SeqInputs : requests = {r1, r2}

SpecSeq == InitSeq /\ [][Next]_vars

-----------------------------------------------------------------------------
(* Reading an Output *)

NonWs(text) == SelectSeq(text, LAMBDA t : t.tok # "ws")

Trimmed(text) == text = << >> \/ (Head(text).tok # "ws" /\ text[Len(text)].tok # "ws")

\* the keys of the entries of an operations or express section, in order
EntryIds(text) ==
    LET entries == SelectSeq(text, LAMBDA t : t.tok = "entry")
    IN  [i \in DOMAIN entries |-> entries[i].id]

\* the call ran in full-document mode: it did not take the raw-schema return
FullDocument == ~(ctx.rawSchema /\ ctx.version \in {2, 3})

MethodSet == {"get", "put", "post", "delete", "options", "head", "patch", "trace"}

\* the operation ids the Document's paths give rise to
DocumentIds ==
    IF Has(schema, "paths")
    THEN {Discovered(schema.paths)[i].id : i \in DOMAIN Discovered(schema.paths)}
    ELSE {}

-----------------------------------------------------------------------------
(* C1 *)

VersionKeys(v) ==
    CASE v = 2 -> {"definitions", "parameters", "responses"}
      [] v = 3 -> {"components"}
      [] OTHER -> {}

-----------------------------------------------------------------------------
(* C2 *)

Invoked(fn) == \E i \in DOMAIN log : log[i].ev = fn

\* C2 as stated: whenever rawSchema is set the call returns at once: the
\* Output has one key only, the paths emitter is never invoked and none of
\* paths, operations, express, handlers, components is a key.
C2_RawAlwaysReturns ==
    (pc # "idle" /\ ctx.rawSchema) =>
        /\ pc \in {"raw", "done"}
        /\ ~Invoked("transformPathsObj")
        /\ pc = "done" =>
              /\ Cardinality(DOMAIN output) = 1
              /\ DOMAIN output \cap {"paths", "operations", "express", "handlers", "components"} = {}

\* C2 amended: whenever rawSchema is set and the version is 2 or 3, the call
\* returns at once with exactly one key (definitions for 2, schemas for 3)
\* whose value is the schema-map emitter's rendering of the whole input with
\* required = all its top-level keys, untrimmed; the paths emitter is not
\* invoked and the registry stays empty.  (With any other version the call
\* goes on in full-document mode.)
C2_RawReturns ==
    (pc # "idle" /\ ctx.rawSchema /\ ctx.version \in {2, 3}) =>
        /\ pc \in {"raw", "done"}
        /\ ~Invoked("transformPathsObj")
        /\ operations = << >>
        /\ pc = "done" =>
              /\ DOMAIN output = {IF ctx.version = 2 THEN "definitions" ELSE "schemas"}
              /\ \A k \in DOMAIN output :
                    output[k] = Padding
                                  \o <<[tok |-> "schemaObjMap", keys |-> DOMAIN schema,
                                        required |-> DOMAIN schema]>>
                                  \o Padding

\* a raw-schema call on an input with several top-level keys, paths among
\* them, has returned
C2_Witness ==
    /\ pc = "done"
    /\ ctx.rawSchema
    /\ ctx.version = 3
    /\ Has(schema, "paths")
    /\ Cardinality(DOMAIN schema) >= 2
    /\ DOMAIN output = {"schemas"}

-----------------------------------------------------------------------------
(* C3 *)

\* C3 as stated: on every return path, raw-schema mode included, every
\* section of the returned Output has no leading and no trailing whitespace.
C3_EverySectionTrimmed ==
    pc = "done" => \A k \in DOMAIN output : Trimmed(output[k])

-----------------------------------------------------------------------------
(* C4 *)

\* the keys of a Path Item, in the key order of the object
ItemKeys(item) == [i \in DOMAIN item |-> item[i].key]

\* the method keys of a Path Item in the key order of the object
MethodsInItemOrder(item) == SelectSeq(ItemKeys(item), LAMBDA k : k \in MethodSet)

\* the method keys of a Path Item in the order get, put, post, delete,
\* options, head, patch, trace
MethodsInCanonicalOrder(item) ==
    SelectSeq(<<"get", "put", "post", "delete", "options", "head", "patch", "trace">>,
              LAMBDA m : HasKey(item, m))

\* what a handlers section says: per path entry, the path and its members
HandlersShape(text) ==
    LET toks == NonWs(text)
    IN  [i \in DOMAIN toks |->
            CASE toks[i].tok = "pathEntry" -> <<"path", toks[i].name.fromPath>>
              [] toks[i].tok = "handler" -> <<"member", toks[i].method>>
              [] OTHER -> <<"end", "">>]

\* the shape of a handlers section over paths whose members are ordered as
\* the Path Item (canonical = FALSE) or canonically (canonical = TRUE)
RECURSIVE ShapeOf(_, _)
ShapeOf(paths, canonical) ==
    IF paths = << >> THEN << >>
    ELSE LET methods == IF canonical
                        THEN MethodsInCanonicalOrder(Head(paths).item)
                        ELSE MethodsInItemOrder(Head(paths).item)
         IN  <<<<"path", Head(paths).path>>>>
                \o [i \in DOMAIN methods |-> <<"member", methods[i]>>]
                \o <<<<"end", "">>>>
                \o ShapeOf(Tail(paths), canonical)

HandlersProduced == pc = "done" /\ "handlers" \in DOMAIN output

\* C4 as stated: the handlers section lists the paths in document order and,
\* per path, exactly the method keys of the Path Item in the canonical order.
C4_CanonicalMethodOrder ==
    HandlersProduced =>
        HandlersShape(output["handlers"]) = ShapeOf(schema.paths, TRUE)

\* C4 amended: the handlers section lists the paths in document order and, per
\* path, exactly the method keys of the Path Item in the key order of the Path
\* Item; a key outside the method set is never a member.
C4_ItemMethodOrder ==
    HandlersProduced =>
        HandlersShape(output["handlers"]) = ShapeOf(schema.paths, FALSE)

\* a handlers section for a Path Item { post, parameters, get }
C4_Witness ==
    /\ HandlersProduced
    /\ \E i \in DOMAIN schema.paths :
          ItemKeys(schema.paths[i].item) = <<"post", "parameters", "get">>

-----------------------------------------------------------------------------
(* C10 *)

HandlerIds(text) ==
    {text[i].id : i \in {j \in DOMAIN text : text[j].tok = "handler"}}

\* C10: whenever the handlers section is produced, the operation ids its
\* members refer to are keys of express entries of the same Output, and every
\* express entry is referred to by a member.
C10_HandlersReferToExpress ==
    HandlersProduced =>
        HandlerIds(output["handlers"]) = Range(EntryIds(output["express"]))

\* handlers over a Path Item with an operation with an explicit id, one with
\* a synthesized id, and a parameters key that is no member
C10_Witness ==
    /\ HandlersProduced
    /\ Cardinality(HandlerIds(output["handlers"])) = 2
    /\ \E i \in DOMAIN schema.paths : HasKey(schema.paths[i].item, "parameters")
    /\ \E id \in HandlerIds(output["handlers"]) : id.operationId = ""
    /\ \E id \in HandlerIds(output["handlers"]) : id.operationId # ""

-----------------------------------------------------------------------------
(* C5 *)

\* the ids of a sequence of registrations, each at its first occurrence
RECURSIVE FirstSeen(_, _)
FirstSeen(entries, seen) ==
    IF entries = << >> THEN << >>
    ELSE IF Head(entries).id \in seen
         THEN FirstSeen(Tail(entries), seen)
         ELSE <<Head(entries).id>> \o FirstSeen(Tail(entries), seen \cup {Head(entries).id})

\* the tokens of the k-th entry of an express section
ExpressEntryAt(text, k) == SubSeq(NonWs(text), 6 * (k - 1) + 1, 6 * k)

-----------------------------------------------------------------------------
(* C6 *)

\* the names of the container blocks of a components section
BlockNames(text) == {text[i].name : i \in {j \in DOMAIN text : text[j].tok = "open"}}

\* C6: in full-document mode, version 2 populates definitions, parameters and
\* responses from the root collections of the Document (parameters with
\* required = its own keys) and never components; version 3 has none of the
\* keys parameters, definitions, responses, and parameters appear only inside
\* output.components, from components.parameters; any other version populates
\* no version-specific section.
C6_VersionRouting ==
    (pc = "done" /\ FullDocument) =>
        /\ ctx.version = 2 =>
              /\ DOMAIN output \cap {"definitions", "parameters", "responses"}
                    = DOMAIN schema \cap {"definitions", "parameters", "responses"}
              /\ "components" \notin DOMAIN output
              /\ Has(schema, "parameters") =>
                    output["parameters"] =
                        <<[tok |-> "schemaObjMap", keys |-> DOMAIN schema["parameters"],
                           required |-> DOMAIN schema["parameters"]]>>
        /\ ctx.version = 3 =>
              /\ DOMAIN output \cap {"definitions", "parameters", "responses"} = {}
              /\ "components" \in DOMAIN output
              /\ ("parameters" \in BlockNames(output["components"]))
                    <=> (Has(schema, "components") /\ Has(schema["components"], "parameters"))
        /\ ctx.version \notin {2, 3} =>
              DOMAIN output
                \cap {"definitions", "parameters", "responses", "components", "schemas"} = {}

\* the same Document with root parameters has been transformed as version 3
C6_Witness ==
    /\ pc = "done"
    /\ FullDocument
    /\ ctx.version = 3
    /\ Has(schema, "parameters")
    /\ Has(schema, "components")
    /\ "parameters" \in BlockNames(output["components"])
    /\ "parameters" \notin DOMAIN output

-----------------------------------------------------------------------------
(* C8 *)

\* every globalParameters pool handed to the paths emitter, to the
\* operation-type renderer and to the request-type and query-type helpers
PoolsUsed ==
    LET Of(k, tok) == {j \in DOMAIN output[k] : output[k][j].tok = tok}
        requests_ == {j \in Of("express", "member") : output["express"][j].name = "request"}
    IN  {output["paths"][j].globalParameters : j \in Of("paths", "pathsObj")}
            \cup {output["operations"][j].globalParameters : j \in Of("operations", "operationObj")}
            \cup {output["express"][j].type[1].globalParameters : j \in requests_}
            \cup {output["express"][j].type[2].globalParameters : j \in requests_}

HasComponentsParameters == Has(schema, "components") /\ Has(schema["components"], "parameters")

TransformedPaths == pc = "done" /\ FullDocument /\ Has(schema, "paths")

\* C8 as stated, for the two defined versions in non-raw mode: the pool is
\* components.parameters when the version is 3 and the flat root parameters
\* when it is 2; version 3 never uses the root parameters and version 2 never
\* uses components.parameters.
C8_PoolByVersion ==
    (TransformedPaths /\ ~ctx.rawSchema /\ ctx.version \in {2, 3}) =>
        PoolsUsed =
            {IF ctx.version = 3
             THEN (IF HasComponentsParameters THEN ComponentCollection("parameters") ELSE Undefined)
             ELSE (IF Has(schema, "parameters") THEN RootCollection("parameters") ELSE Undefined)}

\* C8 amended: whatever the version, the pool is components.parameters when
\* the Document has one, else the flat root parameters when the Document has
\* them, else undefined; all users are handed the same pool.
C8_PoolByPresence ==
    TransformedPaths =>
        PoolsUsed =
            {IF HasComponentsParameters THEN ComponentCollection("parameters")
             ELSE IF Has(schema, "parameters") THEN RootCollection("parameters")
             ELSE Undefined}

\* a version 3 Document with root parameters, without components.parameters
\* and with an operation has been transformed
C8_Witness ==
    /\ TransformedPaths
    /\ ctx.version = 3
    /\ Has(schema, "parameters")
    /\ ~HasComponentsParameters
    /\ operations # << >>
    /\ PoolsUsed = {RootCollection("parameters")}

-----------------------------------------------------------------------------
(* C9 *)

\* all writes of the registry come before its first read, none after a read
WritesBeforeReads ==
    \A i, j \in DOMAIN log : (i < j /\ log[i].ev = "read") => log[j].ev # "write"

RegistryRead == \E i \in DOMAIN log : log[i].ev = "read"

DiscoveredOperations == IF Has(schema, "paths") THEN Discovered(schema.paths) ELSE << >>

\* the last discovered operation with the id
LastDiscovered(id) ==
    LET found == DiscoveredOperations
        last == CHOOSE i \in DOMAIN found :
                    /\ found[i].id = id
                    /\ \A j \in DOMAIN found : found[j].id = id => j <= i
    IN  found[last]

\* C9 as stated: writes come before reads, and at the first read every
\* discovered operation is in the registry, each registered exactly once, also
\* when two operations resolve to the same id.
C9_EveryOperationRegistered ==
    /\ WritesBeforeReads
    /\ RegistryRead =>
          /\ Len(operations) = Len(DiscoveredOperations)
          /\ \A i \in DOMAIN DiscoveredOperations :
                \E k \in DOMAIN operations : operations[k] = DiscoveredOperations[i]

\* C9 amended: writes come before reads, and from the first read on the
\* registry has exactly one entry per discovered operation id, which holds the
\* last operation discovered with that id: of two operations that resolve to
\* the same id the earlier one is overwritten.
C9_EveryIdRegistered ==
    /\ WritesBeforeReads
    /\ RegistryRead =>
          /\ Range(Keys(operations)) = DocumentIds
          /\ Len(operations) = Cardinality(DocumentIds)
          /\ \A k \in DOMAIN operations : operations[k] = LastDiscovered(operations[k].id)

\* the registry has been read after two operations of different Path Items
\* resolved to the same id
C9_Witness ==
    /\ RegistryRead
    /\ Len(DiscoveredOperations) = 2
    /\ Len(operations) = 1
    /\ DiscoveredOperations[1].pathItem # DiscoveredOperations[2].pathItem
    /\ operations[1] = DiscoveredOperations[2]

-----------------------------------------------------------------------------
(* C7 *)

\* the operation ids that the operations, express and handlers sections name
SectionIds ==
    (IF "operations" \in DOMAIN output THEN Range(EntryIds(output["operations"])) ELSE {})
        \cup (IF "express" \in DOMAIN output THEN Range(EntryIds(output["express"])) ELSE {})
        \cup (IF "handlers" \in DOMAIN output THEN HandlerIds(output["handlers"]) ELSE {})

SameInputAsFirst ==
    /\ first # << >>
    /\ first[1].schema = schema
    /\ first[1].ctx = ctx

\* C7: a call with the Document and the Context of the first call returns the
\* Output the first call returned, whatever was called in between; and the
\* sections of a call name only operations of its own Document, never one that
\* an earlier call registered.
C7_Deterministic ==
    pc = "done" =>
        /\ SameInputAsFirst => output = first[1].output
        /\ SectionIds \subseteq DocumentIds

\* the input of the first call has been transformed again, after a call that
\* registered an operation the input does not have
C7_Witness ==
    /\ pc = "done"
    /\ SameInputAsFirst
    /\ first[1].later
    /\ operations # << >>
    /\ \E r \in requests :
          /\ Has(r.schema, "paths")
          /\ ~r.ctx.rawSchema
          /\ \E i \in DOMAIN Discovered(r.schema.paths) :
                Discovered(r.schema.paths)[i].id \notin DocumentIds

====
